---- MODULE Spec2Model ----
(***************************************************************************)
(* A model of the Game-of-Life board engine of src/logic/Board.py and of   *)
(* the threads that use it: the driver thread (src/logic/Handler.py), the  *)
(* paste threads and the UI thread (src/render/ComplexComponents.py).      *)
(*                                                                         *)
(* Grids are functions over 0-based <<row, column>> pairs, as numpy        *)
(* indexes them.  numpy's slicing (clamping, negative indices counted from *)
(* the end, empty slices) and its broadcasting on assignment are modelled  *)
(* as numpy performs them.                                                 *)
(***************************************************************************)
EXTENDS Integers, Sequences, FiniteSets, TLC

(***************************************************************************)
(* Bounds of the model.                                                    *)
(***************************************************************************)
\* logical size of the live board (arguments of Board.__new__)
Height == 2
Width == 2
\* random seeding draws any grid; the model draws those with at most
\* MaxSeedAlive live cells
MaxSeedAlive == 1
\* the driver loop is followed for MaxTicks generations
MaxTicks == 2
\* number of paste threads started by clicks
MaxPasteThreads == 1
\* number of operations the UI thread starts
MaxUiOps == 1
\* interior size of the presets that are pasted (rows x columns)
MaxPresetRows == 1
MaxPresetCols == 2
\* the arrays presets are built from have at most this many rows and columns
MaxRegionRows == 4
MaxRegionCols == 4
\* interior rows of the boards pasted on a board no other thread uses
MaxAloneRows == 2
\* logical heights and widths given to the constructor: -MaxNegDim .. MaxDim
MaxNegDim == 3
MaxDim == 2
\* operations on the presets and their files followed
MaxShelfOps == 4
\* operations on the preset built on the live board followed
MaxViewOps == 3
\* requests of the time bar (pause, resume, step) followed
MaxPacingOps == 3
\* logical size of the board that ticks alone
SoloHeight == 5
SoloWidth == 5
\* rotations and crops followed on a preset
MaxTurns == 4
MaxCrops == 2
\* the grids on which the two update paths are compared have at most
\* MaxInputAlive live cells
MaxInputAlive == 3

(***************************************************************************)
(* Grid storage: Board.__new__ / Board.__init__                            *)
(***************************************************************************)
\* physical shape: the logical size plus a 1-cell border on each side
shape == <<Height + 2, Width + 2>>

Cells == (0 .. shape[1] - 1) \X (0 .. shape[2] - 1)

GridCells(shp) == (0 .. shp[1] - 1) \X (0 .. shp[2] - 1)

\* np.zeros(shape, dtype=bool)
zeros(shp) == [c \in GridCells(shp) |-> FALSE]

\* the cells of the 1-cell border of a grid of shape shp
BorderCells(shp) ==
    {c \in GridCells(shp) :
        c[1] = 0 \/ c[1] = shp[1] - 1 \/ c[2] = 0 \/ c[2] = shp[2] - 1}

InteriorCells(shp) == GridCells(shp) \ BorderCells(shp)

RECURSIVE SubsetsUpTo(_, _)
SubsetsUpTo(S, k) ==
    IF k = 0 THEN {{}}
    ELSE LET P == SubsetsUpTo(S, k - 1)
         IN  P \cup {s \cup {x} : s \in P, x \in S}

\* the outcomes of np.random.choice([False, True], shape) the model draws:
\* every cell of the physical grid, border included, is drawn
RandomChoices == {[c \in Cells |-> c \in S] : S \in SubsetsUpTo(Cells, MaxSeedAlive)}

\* Board.__new__(cls, _, random, height, width)
BoardNew(random, choice) == IF random THEN choice ELSE zeros(shape)

(***************************************************************************)
(* numpy slicing                                                           *)
(***************************************************************************)
\* a slice bound k on an axis of length n: negative bounds count from the
\* end, and the result is clamped to 0 .. n
SliceBound(k, n) ==
    IF k < 0 THEN (IF k + n < 0 THEN 0 ELSE k + n)
    ELSE (IF k > n THEN n ELSE k)

\* the indices selected by a[start:stop] on an axis of length n
Slice(start, stop, n) ==
    {r \in 0 .. n - 1 : SliceBound(start, n) <= r /\ r < SliceBound(stop, n)}

\* int(a.sum()) of a boolean grid restricted to the cells S
SumOver(b, S) == Cardinality({c \in S : b[c]})

AsInt(v) == IF v THEN 1 ELSE 0

(***************************************************************************)
(* Update rule: Board.countAlive, Board.updateCPU, Board.updateGpu         *)
(***************************************************************************)
\* a plausible slip: the cell's own value is not subtracted
countAliveWithSelf(b, i, j) ==
    SumOver(b, Slice(i - 1, i + 2, shape[1]) \X Slice(j - 1, j + 2, shape[2]))

\* self[i - 1:i + 2, j - 1:j + 2].sum() - self[i, j]
countAlive(b, i, j) ==
    SumOver(b, Slice(i - 1, i + 2, shape[1]) \X Slice(j - 1, j + 2, shape[2]))
        - AsInt(b[<<i, j>>])

\* a rule under which no live cell survives
NextStateBirthOnly(alive, alive_count) == alive_count = 3

\* alive_count in [2, 3] if self[i, j] else alive_count == 3
NextState(alive, alive_count) ==
    IF alive THEN alive_count \in {2, 3} ELSE alive_count = 3

\* the loop of updateCPU over np.ndindex(self.shape): every cell of the
\* physical grid, border included, is computed from the current grid
updateCPULoop(b) ==
    [c \in Cells |-> NextState(b[c], countAlive(b, c[1], c[2]))]

\* threads_per_blocks of runOnGpu
ThreadsPerBlock == 16

\* blocks_per_grid of runOnGpu, per axis
BlocksPerGrid(n) == (n + ThreadsPerBlock - 1) \div ThreadsPerBlock

\* the values of cuda.grid(2) over the launched blocks
KernelThreads ==
    (0 .. BlocksPerGrid(shape[1]) * ThreadsPerBlock - 1)
        \X (0 .. BlocksPerGrid(shape[2]) * ThreadsPerBlock - 1)

\* the guard of the kernels: 0 < x < width - 1 and 0 < y < height - 1,
\* called with width, height = shape
KernelGuard(x, y) ==
    0 < x /\ x < shape[1] - 1 /\ 0 < y /\ y < shape[2] - 1

\* the neighbour count of one updateGpu instance
GpuAliveCount(b, x, y) ==
    LET window == {<<x + i, y + j>> : i \in -1 .. 1, j \in -1 .. 1}
    IN  SumOver(b, window) - AsInt(b[<<x, y>>])

\* runOnGpu(src, dest, shape, updateGpu): the instances that pass the guard
\* write dest; every other cell of dest keeps the value copied to the device
updateGpu(src, dest) ==
    [c \in Cells |->
        IF <<c[1], c[2]>> \in KernelThreads /\ KernelGuard(c[1], c[2])
        THEN NextState(src[c], GpuAliveCount(src, c[1], c[2]))
        ELSE dest[c]]

\* a plausible slip: births counted as the live cells of the next grid
BirthsAllNew(new, old) == SumOver(new, Cells)

\* int((self.new_board & ~self).sum())
Births(new, old) == Cardinality({c \in Cells : new[c] /\ ~old[c]})

\* int((~self.new_board & self).sum())
Deaths(new, old) == Cardinality({c \in Cells : ~new[c] /\ old[c]})

\* Board.getAliveCount: int(self.sum()), over the physical grid
getAliveCount(b) == SumOver(b, Cells)

\* Board.getSize: (shape[1] - 2, shape[0] - 2)
getSize(shp) == <<shp[2] - 2, shp[1] - 2>>

(***************************************************************************)
(* Statistics trackers: DataTracker                                        *)
(***************************************************************************)
TrackerNames == {"generation", "time", "alive", "births", "deaths"}

\* Board.__init__: one DataTracker per name, value 0
InitTrackers == [k \in TrackerNames |-> 0]

\* a tracker that adds twice what it is given
increaseTwice(value, val) == value + val + val

\* DataTracker.increase: update(self.value + val)
increase(value, val) == value + val

RECURSIVE UpdateAllPushTwice(_, _, _, _)
\* trackers that push every value twice
UpdateAllPushTwice(trk, log, updates, failAt) ==
    IF updates = << >> THEN [trackers |-> trk, pushed |-> log, raised |-> FALSE]
    ELSE LET u == Head(updates)
             set == [trk EXCEPT ![u[1]] = u[2]]
         IN  UpdateAllPushTwice(set, Append(Append(log, u[1]), u[1]),
                                Tail(updates), failAt)

\* DataTracker.update for a sequence of <<name, value>> updates, in order.
\* failAt = 0: every dataset.push returns; failAt = k: the k-th push raises,
\* after self.value was set, and the later updates are not reached.
RECURSIVE UpdateAll(_, _, _, _)
UpdateAll(trk, log, updates, failAt) ==
    IF updates = << >> THEN [trackers |-> trk, pushed |-> log, raised |-> FALSE]
    ELSE LET u == Head(updates)
             set == [trk EXCEPT ![u[1]] = u[2]]
         IN  IF failAt = 1
             THEN [trackers |-> set, pushed |-> log, raised |-> TRUE]
             ELSE UpdateAll(set, Append(log, u[1]), Tail(updates),
                            IF failAt = 0 THEN 0 ELSE failAt - 1)

(***************************************************************************)
(* Image materialisation: Board.getImage, Board.image                      *)
(***************************************************************************)
\* Board.background_color as Main sets it before the board is built
BackgroundColor == 33

None == [mode |-> "None"]

\* the sub-grid of b of shape shp whose cell <<0, 0>> is b's cell <<r0, c0>>:
\* a numpy view, re-indexed from 0
View(b, r0, c0, shp) == [c \in GridCells(shp) |-> b[<<c[1] + r0, c[2] + c0>>]]

\* a CPU branch that keeps the border: pixel p is the grey value of cell p
ImageCPUUncropped(g, shp, is_transparent) ==
    LET grey(c) == IF g[c] THEN 255
                   ELSE IF ~is_transparent /\ BackgroundColor # 0
                        THEN BackgroundColor ELSE 0
        pixels == (0 .. shp[1] - 3) \X (0 .. shp[2] - 3)
    IN  [mode |-> IF is_transparent THEN "RGBA" ELSE "RGB",
         px |-> [p \in pixels |->
                    LET v == grey(p)
                    IN  IF is_transparent THEN <<v, v, v, v>> ELSE <<v, v, v>>]]

\* the CPU branch of getImage on a grid g of shape shp: the grey value of
\* every cell, the crop to (1, 1, shape[1] - 1, shape[0] - 1), the
\* conversion to RGB and, when transparent, the grey image as alpha
ImageCPU(g, shp, is_transparent) ==
    LET grey(c) == IF g[c] THEN 255
                   ELSE IF ~is_transparent /\ BackgroundColor # 0
                        THEN BackgroundColor ELSE 0
        pixels == (0 .. shp[1] - 3) \X (0 .. shp[2] - 3)
    IN  [mode |-> IF is_transparent THEN "RGBA" ELSE "RGB",
         px |-> [p \in pixels |->
                    LET v == grey(<<p[1] + 1, p[2] + 1>>)
                    IN  IF is_transparent THEN <<v, v, v, v>> ELSE <<v, v, v>>]]

\* the GPU branch: one Board.image instance per cell that passes the guard
\* writes gray[x - 1, y - 1]
ImageGPU(g, shp, is_transparent) ==
    LET pixels == (0 .. getSize(shp)[2] - 1) \X (0 .. getSize(shp)[1] - 1)
        bg == BackgroundColor
    IN  [mode |-> IF is_transparent THEN "RGBA" ELSE "RGB",
         px |-> [p \in pixels |->
                    LET alive == g[<<p[1] + 1, p[2] + 1>>]
                        v == IF alive THEN 255 ELSE bg
                    IN  IF is_transparent
                        THEN <<v, v, v, IF alive THEN 255 ELSE 0>>
                        ELSE <<v, v, v>>]]

\* the image getImage computes when the cache is empty
Render(g, shp, gpu, is_transparent) ==
    IF gpu THEN ImageGPU(g, shp, is_transparent)
    ELSE ImageCPU(g, shp, is_transparent)

(***************************************************************************)
(* Paste: Board.paste                                                      *)
(***************************************************************************)
PresetShapes == {<<r + 2, c + 2>> : r \in 1 .. MaxPresetRows, c \in 1 .. MaxPresetCols}

\* the boards given to paste: every interior content, for each shape
PasteSources ==
    UNION {{[shape |-> shp, cells |-> [c \in GridCells(shp) |-> c \in S]] :
                S \in SUBSET InteriorCells(shp)} : shp \in PresetShapes}

\* the offsets given to paste, on each axis: from three cells before the
\* grid to its last index
PasteRowOffsets == -3 .. shape[1] - 1
PasteColOffsets == -3 .. shape[2] - 1

\* the rows and columns selected by
\* self[x + 1:x + other.shape[0] - 1, y + 1:y + other.shape[1] - 1]
TargetRows(other, x) == Slice(x + 1, x + other.shape[1] - 1, shape[1])
TargetCols(other, y) == Slice(y + 1, y + other.shape[2] - 1, shape[2])

Min(S) == CHOOSE m \in S : \A s \in S : m <= s

\* whether other[1:-1, 1:-1] broadcasts to the selected target: each axis has
\* the target's length or length 1
Broadcasts(other, y, x) ==
    LET sr == other.shape[1] - 2
        sc == other.shape[2] - 2
    IN  /\ (sr = Cardinality(TargetRows(other, x)) \/ sr = 1)
        /\ (sc = Cardinality(TargetCols(other, y)) \/ sc = 1)

\* a copy that starts at the source's border: other[0:-2, 0:-2]
SourceCellFromBorder(other, y, x, c) ==
    LET i == c[1] - Min(TargetRows(other, x))
        j == c[2] - Min(TargetCols(other, y))
    IN  other.cells[<<i, j>>]

\* the source cell copied to target cell c
SourceCell(other, y, x, c) ==
    LET sr == other.shape[1] - 2
        sc == other.shape[2] - 2
        i == IF sr = 1 THEN 0 ELSE c[1] - Min(TargetRows(other, x))
        j == IF sc = 1 THEN 0 ELSE c[2] - Min(TargetCols(other, y))
    IN  other.cells[<<i + 1, j + 1>>]

\* the grid after the k-th row (from 0) of the target has been assigned
PasteRow(b, other, y, x, k) ==
    LET row == Min(TargetRows(other, x)) + k
    IN  [c \in Cells |->
            IF c[1] = row /\ c[2] \in TargetCols(other, y)
            THEN SourceCell(other, y, x, c) ELSE b[c]]

RECURSIVE PasteFrom(_, _, _, _, _)
\* the grid once the rows from k on have been assigned
PasteFrom(b, other, y, x, k) ==
    IF k >= Cardinality(TargetRows(other, x)) THEN b
    ELSE PasteFrom(PasteRow(b, other, y, x, k), other, y, x, k + 1)

NoArgs == [shape |-> <<0, 0>>]

\* whether every interior cell of other lands on an interior cell of the
\* target: rows x + 1 .. x + other.shape[0] - 2 and columns
\* y + 1 .. y + other.shape[1] - 2 lie within the logical grid
InBounds(other, y, x) ==
    /\ 0 <= x /\ x + other.shape[1] - 2 <= shape[1] - 2
    /\ 0 <= y /\ y + other.shape[2] - 2 <= shape[2] - 2

(***************************************************************************)
(* Presets: Preset.__new__, Preset.save                                    *)
(***************************************************************************)
Max(S) == CHOOSE m \in S : \A s \in S : m >= s

\* a crop to the live cells with no padding around them
PresetWindowTight(src, shp, crop) ==
    LET live == {c \in GridCells(shp) : src[c]}
        xs == {c[1] : c \in live}
        ys == {c[2] : c \in live}
    IN  IF crop /\ live # {}
        THEN [r0 |-> Min(xs), c0 |-> Min(ys),
              shape |-> <<Max(xs) - Min(xs) + 1, Max(ys) - Min(ys) + 1>>]
        ELSE [r0 |-> 0, c0 |-> 0, shape |-> shp]

\* Preset.__new__ on a board: the window of src the new Preset is a view of.
\* x, y = np.where(src); with crop and a live cell the window is
\* src[max(min(x) - 1, 0):max(x) + 2, max(min(y) - 1, 0):max(y) + 2]
PresetWindow(src, shp, crop) ==
    LET live == {c \in GridCells(shp) : src[c]}
        xs == {c[1] : c \in live}
        ys == {c[2] : c \in live}
        rows == IF crop /\ live # {}
                THEN Slice(Max({Min(xs) - 1, 0}), Max(xs) + 2, shp[1])
                ELSE 0 .. shp[1] - 1
        cols == IF crop /\ live # {}
                THEN Slice(Max({Min(ys) - 1, 0}), Max(ys) + 2, shp[2])
                ELSE 0 .. shp[2] - 1
    IN  [r0 |-> Min(rows), c0 |-> Min(cols),
         shape |-> <<Cardinality(rows), Cardinality(cols)>>]

\* np.savetxt(path, self, fmt='%d'): one line per row, one 0/1 token per cell
savetxt(g, shp) ==
    [i \in 1 .. shp[1] |-> [j \in 1 .. shp[2] |-> AsInt(g[<<i - 1, j - 1>>])]]

\* np.loadtxt(src, dtype=bool): every token is read as a number and is True
\* unless it is 0; axes of length 1 are squeezed away (ndmin = 0), so a file
\* of one line or of one column loads as a 1-D array
loadtxt(lines) ==
    LET rows == Len(lines)
        cols == IF rows = 0 THEN 0 ELSE Len(lines[1])
        shp == IF rows = 1 /\ cols = 1 THEN << >>
               ELSE IF rows = 1 THEN <<cols>>
               ELSE IF cols = 1 THEN <<rows>>
               ELSE <<rows, cols>>
        index == IF Len(shp) = 2 THEN GridCells(shp)
                 ELSE IF Len(shp) = 1 THEN {<<k>> : k \in 0 .. shp[1] - 1}
                 ELSE {<< >>}
        token(c) == IF Len(shp) = 2 THEN lines[c[1] + 1][c[2] + 1]
                    ELSE IF rows = 1 /\ cols = 1 THEN lines[1][1]
                    ELSE IF rows = 1 THEN lines[1][c[1] + 1]
                    ELSE lines[c[1] + 1][1]
    IN  [shape |-> shp, cells |-> [c \in index |-> token(c) # 0]]

NoPreset == [exists |-> FALSE]

(***************************************************************************)
(* State                                                                   *)
(***************************************************************************)
VARIABLES
    board,        \* the physical grid (the Board array itself)
    new_board,    \* Board.new_board
    use_gpu,      \* Board.use_gpu
    tick_lock,    \* Board.tick_lock: the thread that holds it, or NoThread
    trackers,     \* value of each DataTracker of Board.trackers
    sinkRaises,   \* whether the attached datasets' push can raise
    pushed,       \* the names pushed to their datasets since the tick began
    image,        \* Board.image, the cached image (None: empty)
    pc,           \* where each thread is
    copied,       \* rows assigned so far by the running grid assignment
    pasteArgs,    \* (other, y, x) of the paste whose assignment is running
    img_local,    \* the image a running getImage has computed
    ret,          \* what the last getImage call returned
    uiOps,        \* operations the UI thread has started
    preset,       \* the Preset built by SavePopup.save: a view of the board
    file,         \* the lines of the file written by Preset.save
    pre,          \* history: the last tick or paste that took the lock, with
                  \* the grid and the trackers as they were when it took it
    paths,        \* result of one tick of an input grid on each path
    container,    \* PresetContainer: the selected preset, the list of
                  \* presets it was selected from, and another value
    was,          \* history: the last operation on the selected preset
    paused        \* LogicHandler.paused: the thread that holds it, or NoThread

vars == <<board, new_board, use_gpu, tick_lock, trackers, sinkRaises, pushed,
          image, pc, copied, pasteArgs, img_local, ret, uiOps, preset, file,
          pre, paths, container, was, paused>>

Driver == <<"driver", 0>>
Ui == <<"ui", 0>>
PasteThreads == {<<"paste", k>> : k \in 1 .. MaxPasteThreads}
Threads == {Driver, Ui} \cup PasteThreads
NoThread == <<"none", 0>>

NoPaths == [done |-> FALSE]

\* no preset is selected (PresetContainer.preset is None)
NoContainer == [preset |-> None, other |-> None, presets |-> << >>]
NoOp == [op |-> "none"]

\* Board.__new__ and Board.__init__, then Interface.makeComponents attaches
\* the datasets; no thread has started an operation
InitBoard(raises) ==
    /\ \E random \in BOOLEAN, choice \in RandomChoices :
          board = BoardNew(random, choice)
    /\ new_board = zeros(shape)
    /\ use_gpu \in BOOLEAN
    /\ tick_lock = NoThread
    /\ trackers = InitTrackers
    /\ sinkRaises = raises
    /\ pushed = << >>
    /\ image = None
    /\ pc = [t \in Threads |-> "idle"]
    /\ copied = 0
    /\ pasteArgs = NoArgs
    /\ img_local = None
    /\ ret = None
    /\ uiOps = 0
    /\ preset = NoPreset
    /\ file = << >>
    /\ pre = [op |-> "none", by |-> NoThread, board |-> board,
              trackers |-> trackers, inBounds |-> TRUE]
    /\ paths = NoPaths
    /\ paused = NoThread
    /\ container = NoContainer
    /\ was = NoOp

Init == InitBoard(FALSE)

\* the push outcomes of n updates: none raises, or the k-th does
FailChoices(n) == IF sinkRaises THEN 0 .. n ELSE {0}

(***************************************************************************)
(* Board.tick, run by thread t                                             *)
(***************************************************************************)
\* LogicHandler.run: while self.running: self.board.tick()
DriverRun ==
    /\ pc[Driver] = "idle"
    /\ trackers["generation"] < MaxTicks
    /\ pc' = [pc EXCEPT ![Driver] = "tick_acquire"]
    /\ UNCHANGED <<paused, board, new_board, use_gpu, tick_lock, trackers, sinkRaises,
                   pushed, image, copied, pasteArgs, img_local, ret, uiOps,
                   preset, file, pre, paths, container, was>>

\* self.tick_lock.acquire(); start = time.time()
TickAcquire(t) ==
    /\ pc[t] = "tick_acquire"
    /\ tick_lock = NoThread
    /\ tick_lock' = t
    /\ pre' = [op |-> "tick", by |-> t, board |-> board,
               trackers |-> trackers, inBounds |-> TRUE]
    /\ pushed' = << >>
    /\ pc' = [pc EXCEPT ![t] = "tick_update"]
    /\ UNCHANGED <<paused, board, new_board, use_gpu, trackers, sinkRaises, image,
                   copied, pasteArgs, img_local, ret, uiOps, preset, file, paths, container, was>>

\* the next grid is computed into new_board, on the path chosen at
\* construction
ComputeNext(b, nb, gpu) == IF gpu THEN updateGpu(b, nb) ELSE updateCPULoop(b)

\* new_board is computed and the births and deaths trackers are updated
\* (tick lines 124-132 on the GPU path, updateCPU lines 88-93 otherwise)
TickUpdate(t) ==
    /\ pc[t] = "tick_update"
    /\ LET nb == ComputeNext(board, new_board, use_gpu)
       IN  /\ new_board' = nb
           /\ \E failAt \in FailChoices(2) :
                LET r == UpdateAll(trackers, pushed,
                                   << <<"births", Births(nb, board)>>,
                                      <<"deaths", Deaths(nb, board)>> >>, failAt)
                IN  /\ trackers' = r.trackers
                    /\ pushed' = r.pushed
                    /\ pc' = [pc EXCEPT ![t] =
                                IF r.raised THEN "tick_raised" ELSE "tick_copy"]
    /\ copied' = 0
    /\ UNCHANGED <<paused, board, use_gpu, tick_lock, sinkRaises, image, pasteArgs,
                   img_local, ret, uiOps, preset, file, pre, paths, container, was>>

\* one row of b replaced by the same row of nb
CopyRow(b, nb, row) == [c \in Cells |-> IF c[1] = row THEN nb[c] ELSE b[c]]

\* self[...] = self.new_board: the assignment is not atomic for the threads
\* that read the grid without the lock; it is followed row by row
TickCopy(t) ==
    /\ pc[t] = "tick_copy"
    /\ board' = CopyRow(board, new_board, copied)
    /\ copied' = copied + 1
    /\ pc' = [pc EXCEPT ![t] =
                IF copied + 1 = shape[1] THEN "tick_trackers" ELSE "tick_copy"]
    /\ UNCHANGED <<paused, new_board, use_gpu, tick_lock, trackers, sinkRaises, pushed,
                   image, pasteArgs, img_local, ret, uiOps, preset, file, pre,
                   paths, container, was>>

\* the alive, time and generation trackers are updated, the image cache is
\* emptied and the lock released; a push that raises leaves tick at once.
\* The elapsed time is not followed: the time tracker keeps 0.
TickFinish(t) ==
    /\ pc[t] = "tick_trackers"
    /\ \E failAt \in FailChoices(3) :
         LET r == UpdateAll(trackers, pushed,
                            << <<"alive", getAliveCount(board)>>,
                               <<"time", 0>>,
                               <<"generation", increase(trackers["generation"], 1)>> >>,
                            failAt)
         IN  /\ trackers' = r.trackers
             /\ pushed' = r.pushed
             /\ IF r.raised
                THEN /\ pc' = [pc EXCEPT ![t] = "tick_raised"]
                     /\ UNCHANGED <<image, tick_lock>>
                ELSE /\ pc' = [pc EXCEPT ![t] = "idle"]
                     /\ image' = None
                     /\ tick_lock' = NoThread
    /\ UNCHANGED <<paused, board, new_board, use_gpu, sinkRaises, copied, pasteArgs,
                   img_local, ret, uiOps, preset, file, pre, paths, container, was>>

(***************************************************************************)
(* Board.paste, run by a thread of its own (PresetRender.handleEvents)     *)
(***************************************************************************)
\* Thread(target=lambda: self.referer.board.paste(...)).start()
PasteCall(t) ==
    /\ pc[t] = "idle"
    /\ pc' = [pc EXCEPT ![t] = "paste_acquire"]
    /\ UNCHANGED <<paused, board, new_board, use_gpu, tick_lock, trackers, sinkRaises,
                   pushed, image, copied, pasteArgs, img_local, ret, uiOps,
                   preset, file, pre, paths, container, was>>

\* self.tick_lock.acquire()
PasteAcquire(t) ==
    /\ pc[t] = "paste_acquire"
    /\ tick_lock = NoThread
    /\ tick_lock' = t
    /\ copied' = 0
    /\ pre' = [op |-> "paste", by |-> t, board |-> board,
               trackers |-> trackers, inBounds |-> TRUE]
    /\ pc' = [pc EXCEPT ![t] = "paste_write"]
    /\ UNCHANGED <<paused, board, new_board, use_gpu, trackers, sinkRaises, pushed,
                   image, pasteArgs, img_local, ret, uiOps, preset, file,
                   paths, container, was>>

\* the assignment of paste, followed row by row like the one of tick; the
\* arguments are local to the thread until here, so they are drawn here.
\* A source that does not broadcast raises before any cell is written, and
\* paste is left with the lock held.  With the last row assigned, refresh()
\* empties the image cache and the lock is released.
PasteWrite(t) ==
    /\ pc[t] = "paste_write"
    /\ \E other \in (IF pasteArgs = NoArgs THEN PasteSources ELSE {pasteArgs.other}),
          y \in (IF pasteArgs = NoArgs THEN PasteColOffsets ELSE {pasteArgs.y}),
          x \in (IF pasteArgs = NoArgs THEN PasteRowOffsets ELSE {pasteArgs.x}) :
         /\ pre' = [pre EXCEPT !.inBounds = InBounds(other, y, x)]
         /\ IF ~Broadcasts(other, y, x)
            THEN /\ pc' = [pc EXCEPT ![t] = "paste_raised"]
                 /\ UNCHANGED <<board, copied, pasteArgs, image, tick_lock>>
            ELSE LET n == Cardinality(TargetRows(other, x))
                 IN  /\ board' = IF copied < n
                                 THEN PasteRow(board, other, y, x, copied)
                                 ELSE board
                     /\ IF copied + 1 < n
                        THEN /\ copied' = copied + 1
                             /\ pasteArgs' = [shape |-> other.shape,
                                              other |-> other, y |-> y, x |-> x]
                             /\ UNCHANGED <<pc, image, tick_lock>>
                        ELSE /\ copied' = 0
                             /\ pasteArgs' = NoArgs
                             /\ image' = None
                             /\ tick_lock' = NoThread
                             /\ pc' = [pc EXCEPT ![t] = "done"]
    /\ UNCHANGED <<paused, new_board, use_gpu, trackers, sinkRaises, pushed, img_local,
                   ret, uiOps, preset, file, paths, container, was>>

(***************************************************************************)
(* The UI thread: BoardRender.render -> Board.getImage(), SavePopup.save   *)
(***************************************************************************)
\* getImage() up to the grid being read: the cached image is returned when
\* there is one, else the image of the grid as it is now is computed.  No
\* lock is taken.
GetImageRead ==
    /\ pc[Ui] = "idle"
    /\ uiOps < MaxUiOps
    /\ uiOps' = uiOps + 1
    /\ IF image # None
       THEN /\ ret' = image
            /\ UNCHANGED <<pc, img_local>>
       ELSE /\ img_local' = Render(board, shape, use_gpu, FALSE)
            /\ pc' = [pc EXCEPT ![Ui] = "img_store"]
            /\ UNCHANGED ret
    /\ UNCHANGED <<paused, board, new_board, use_gpu, tick_lock, trackers, sinkRaises,
                   pushed, image, copied, pasteArgs, preset, file, pre, paths, container, was>>

\* self.image = ...
GetImageStore ==
    /\ pc[Ui] = "img_store"
    /\ image' = img_local
    /\ pc' = [pc EXCEPT ![Ui] = "img_return"]
    /\ UNCHANGED <<paused, board, new_board, use_gpu, tick_lock, trackers, sinkRaises,
                   pushed, copied, pasteArgs, img_local, ret, uiOps, preset,
                   file, pre, paths, container, was>>

\* return self.image
GetImageReturn ==
    /\ pc[Ui] = "img_return"
    /\ ret' = image
    /\ img_local' = None
    /\ pc' = [pc EXCEPT ![Ui] = "idle"]
    /\ UNCHANGED <<paused, board, new_board, use_gpu, tick_lock, trackers, sinkRaises,
                   pushed, image, copied, pasteArgs, uiOps, preset, file, pre,
                   paths, container, was>>

\* SavePopup.save on the live Board with a name typed: a Preset is built on
\* the board (a view of its cells, with a lock, an image cache and trackers
\* of its own), Preset.__init__ calls getImage(True) on it, and Preset.save
\* acquires the Preset's lock.
SaveCall ==
    /\ pc[Ui] = "idle"
    /\ uiOps < MaxUiOps
    /\ uiOps' = uiOps + 1
    /\ \E make_preset \in BOOLEAN :
         LET w == PresetWindow(board, shape, make_preset)
             gpu == ~make_preset /\ use_gpu
         IN  preset' = [exists |-> TRUE, r0 |-> w.r0, c0 |-> w.c0,
                        shape |-> w.shape, use_gpu |-> gpu,
                        image |-> Render(View(board, w.r0, w.c0, w.shape),
                                         w.shape, gpu, TRUE),
                        tick_lock |-> Ui]
    /\ pc' = [pc EXCEPT ![Ui] = "save_write"]
    /\ UNCHANGED <<paused, board, new_board, use_gpu, tick_lock, trackers, sinkRaises,
                   pushed, image, copied, pasteArgs, img_local, ret, file, pre,
                   paths, container, was>>

\* np.savetxt(path, self, fmt='%d') and the release of the Preset's lock; a
\* write that fails raises and leaves save with that lock held
SaveWrite ==
    /\ pc[Ui] = "save_write"
    /\ \E written \in BOOLEAN :
         IF written
         THEN /\ file' = savetxt(View(board, preset.r0, preset.c0, preset.shape),
                                 preset.shape)
              /\ preset' = [preset EXCEPT !.tick_lock = NoThread]
              /\ pc' = [pc EXCEPT ![Ui] = "idle"]
         ELSE /\ pc' = [pc EXCEPT ![Ui] = "save_raised"]
              /\ UNCHANGED <<file, preset>>
    /\ UNCHANGED <<paused, board, new_board, use_gpu, tick_lock, trackers, sinkRaises,
                   pushed, image, copied, pasteArgs, img_local, ret, uiOps, pre,
                   paths, container, was>>

(***************************************************************************)
(* Specifications                                                          *)
(***************************************************************************)
Tick(t) == TickAcquire(t) \/ TickUpdate(t) \/ TickCopy(t) \/ TickFinish(t)

Paste(t) == PasteCall(t) \/ PasteAcquire(t) \/ PasteWrite(t)

GetImage == GetImageRead \/ GetImageStore \/ GetImageReturn

Save == SaveCall \/ SaveWrite

Next ==
    \/ DriverRun
    \/ Tick(Driver)
    \/ \E t \in PasteThreads : Paste(t)
    \/ GetImage
    \/ Save

\* the program as Main builds it: the datasets are Graph.DataSet, whose push
\* does not raise
Spec == Init /\ [][Next]_vars

\* the same program with datasets whose push can raise
InitFaultySink == InitBoard(TRUE)

SpecFaultySink == InitFaultySink /\ [][Next]_vars

(***************************************************************************)
(* One tick of the same grid on each path                                  *)
(***************************************************************************)
PathInputs == {[c \in Cells |-> c \in S] : S \in SubsetsUpTo(Cells, MaxInputAlive)}

\* what tick leaves from grid b with next-generation buffer nb: the grid
\* after self[...] = self.new_board and the births and deaths values
TickOnce(b, nb, gpu) ==
    LET n == ComputeNext(b, nb, gpu)
    IN  [board |-> n, births |-> Births(n, b), deaths |-> Deaths(n, b)]

InitPaths ==
    /\ board \in PathInputs
    /\ new_board = zeros(shape)
    /\ use_gpu = FALSE
    /\ tick_lock = NoThread
    /\ trackers = InitTrackers
    /\ sinkRaises = FALSE
    /\ pushed = << >>
    /\ image = None
    /\ pc = [t \in Threads |-> "idle"]
    /\ copied = 0
    /\ pasteArgs = NoArgs
    /\ img_local = None
    /\ ret = None
    /\ uiOps = 0
    /\ preset = NoPreset
    /\ file = << >>
    /\ pre = [op |-> "none", by |-> NoThread, board |-> board,
              trackers |-> trackers, inBounds |-> TRUE]
    /\ paths = NoPaths
    /\ paused = NoThread
    /\ container = NoContainer
    /\ was = NoOp

\* the first tick of a board built on the input grid, once with use_gpu
\* false and once with use_gpu true
TickBothPaths ==
    /\ ~paths.done
    /\ paths' = [done |-> TRUE,
                 cpu |-> TickOnce(board, new_board, FALSE),
                 gpu |-> TickOnce(board, new_board, TRUE)]
    /\ UNCHANGED <<paused, board, new_board, use_gpu, tick_lock, trackers, sinkRaises,
                   pushed, image, pc, copied, pasteArgs, img_local, ret, uiOps,
                   preset, file, pre, container, was>>

NextPaths == TickBothPaths

SpecPaths == InitPaths /\ [][NextPaths]_vars

(***************************************************************************)
(* A board of another size ticking alone: the update of a grid of shape    *)
(* shp, and the ticks of the driver with no other thread                   *)
(***************************************************************************)
\* Board.countAlive on a grid of shape shp
countAliveOn(b, shp, i, j) ==
    SumOver(b, Slice(i - 1, i + 2, shp[1]) \X Slice(j - 1, j + 2, shp[2]))
        - AsInt(b[<<i, j>>])

\* the loop of Board.updateCPU on a grid of shape shp
updateCPUOn(b, shp) ==
    [c \in GridCells(shp) |->
        NextState(b[c], countAliveOn(b, shp, c[1], c[2]))]

\* runOnGpu(src, dest, shp, updateGpu) on a grid of shape shp
updateGpuOn(src, dest, shp) ==
    [c \in GridCells(shp) |->
        IF /\ c[1] < BlocksPerGrid(shp[1]) * ThreadsPerBlock
           /\ c[2] < BlocksPerGrid(shp[2]) * ThreadsPerBlock
           /\ 0 < c[1] /\ c[1] < shp[1] - 1 /\ 0 < c[2] /\ c[2] < shp[2] - 1
        THEN NextState(src[c], GpuAliveCount(src, c[1], c[2]))
        ELSE dest[c]]

\* the physical shape of the board that ticks alone
SoloShape == <<SoloHeight + 2, SoloWidth + 2>>

\* the live cells of a grid of that shape
SoloLive(b) == {c \in GridCells(SoloShape) : b[c]}

\* an otherwise empty grid with three live cells in a row around centre
\* (the demo of src/Board.py assigns [[1, 1, 1]] to a 3x3 slice, which
\* numpy broadcasts to a 3x3 block; the three-cell row is what is followed)
Blinker(centre) ==
    [c \in GridCells(SoloShape) |->
        c[1] = centre[1] /\ c[2] \in centre[2] - 1 .. centre[2] + 1]

\* the centres for which the three cells, in a row and in a column, are
\* interior cells
BlinkerCentres == (2 .. SoloShape[1] - 3) \X (2 .. SoloShape[2] - 3)

InitSolo ==
    /\ \E centre \in BlinkerCentres :
         /\ board = Blinker(centre)
         /\ was = [op |-> "seed", centre |-> centre]
    /\ new_board = zeros(SoloShape)
    /\ use_gpu \in BOOLEAN
    /\ tick_lock = NoThread
    /\ trackers = InitTrackers
    /\ sinkRaises = FALSE
    /\ pushed = << >>
    /\ image = None
    /\ pc = [t \in Threads |-> "idle"]
    /\ copied = 0
    /\ pasteArgs = NoArgs
    /\ img_local = None
    /\ ret = None
    /\ uiOps = 0
    /\ preset = NoPreset
    /\ file = << >>
    /\ pre = [op |-> "none", by |-> NoThread, board |-> board,
              trackers |-> trackers, inBounds |-> TRUE]
    /\ paths = NoPaths
    /\ paused = NoThread
    /\ container = NoContainer

\* tick up to the computation of new_board and the births and deaths
\* trackers: the lock is taken, new_board computed on the board's path
SoloTickUpdate ==
    /\ pc[Driver] = "idle"
    /\ trackers["generation"] < MaxTicks
    /\ tick_lock = NoThread
    /\ tick_lock' = Driver
    /\ pre' = [pre EXCEPT !.op = "tick", !.by = Driver, !.board = board,
                          !.trackers = trackers]
    /\ LET nb == IF use_gpu THEN updateGpuOn(board, new_board, SoloShape)
                 ELSE updateCPUOn(board, SoloShape)
       IN  /\ new_board' = nb
           /\ trackers' =
                [trackers EXCEPT
                    !["births"] = Cardinality(SoloLive(nb) \ SoloLive(board)),
                    !["deaths"] = Cardinality(SoloLive(board) \ SoloLive(nb))]
    /\ pushed' = <<"births", "deaths">>
    /\ pc' = [pc EXCEPT ![Driver] = "tick_copy"]
    /\ UNCHANGED <<paused, board, use_gpu, sinkRaises, image, copied, pasteArgs,
                   img_local, ret, uiOps, preset, file, paths, container, was>>

\* self[...] = self.new_board
SoloTickCopy ==
    /\ pc[Driver] = "tick_copy"
    /\ board' = new_board
    /\ pc' = [pc EXCEPT ![Driver] = "tick_trackers"]
    /\ UNCHANGED <<paused, new_board, use_gpu, tick_lock, trackers, sinkRaises, pushed,
                   image, copied, pasteArgs, img_local, ret, uiOps, preset,
                   file, pre, paths, container, was>>

\* the alive, time and generation trackers, refresh and the release
SoloTickFinish ==
    /\ pc[Driver] = "tick_trackers"
    /\ trackers' = [trackers EXCEPT
                       !["alive"] = Cardinality(SoloLive(board)),
                       !["time"] = 0,
                       !["generation"] = increase(@, 1)]
    /\ pushed' = pushed \o <<"alive", "time", "generation">>
    /\ image' = None
    /\ tick_lock' = NoThread
    /\ pc' = [pc EXCEPT ![Driver] = "idle"]
    /\ UNCHANGED <<paused, board, new_board, use_gpu, sinkRaises, copied, pasteArgs,
                   img_local, ret, uiOps, preset, file, pre, paths, container,
                   was>>

NextSolo == SoloTickUpdate \/ SoloTickCopy \/ SoloTickFinish

SpecSolo == InitSolo /\ [][NextSolo]_vars

(***************************************************************************)
(* One paste on a board no other thread uses                               *)
(***************************************************************************)
\* the boards pasted there: every interior content, up to MaxAloneRows
\* interior rows
AloneSources ==
    UNION {{[shape |-> shp, cells |-> [c \in GridCells(shp) |-> c \in S]] :
                S \in SUBSET InteriorCells(shp)} :
           shp \in {<<r + 2, c + 2>> : r \in 1 .. MaxAloneRows,
                                       c \in 1 .. MaxPresetCols}}

InitPasteAlone ==
    /\ board \in RandomChoices
    /\ new_board \in {zeros(shape), board}
    /\ use_gpu \in BOOLEAN
    /\ tick_lock = NoThread
    /\ trackers = [InitTrackers EXCEPT !["alive"] = getAliveCount(board)]
    /\ sinkRaises = FALSE
    /\ pushed = << >>
    /\ image \in {None, Render(board, shape, use_gpu, FALSE)}
    /\ pc = [t \in Threads |-> "idle"]
    /\ copied = 0
    /\ pasteArgs = NoArgs
    /\ img_local = None
    /\ ret = None
    /\ uiOps = 0
    /\ preset = NoPreset
    /\ file = << >>
    /\ pre = [op |-> "none", by |-> NoThread, board |-> board,
              trackers |-> trackers, inBounds |-> TRUE]
    /\ paths = NoPaths
    /\ paused = NoThread
    /\ container = NoContainer
    /\ was = NoOp

\* Board.paste(other, y, x) from its acquire to its release, with no other
\* thread running: the assignment raises when the source does not broadcast
\* and paste is left with the lock held
PasteAlone(t) ==
    /\ pc[t] = "idle"
    /\ tick_lock = NoThread
    /\ \E other \in AloneSources, y \in PasteColOffsets, x \in PasteRowOffsets :
         /\ was' = [op |-> "paste", other |-> other, y |-> y, x |-> x,
                    board |-> board, new_board |-> new_board,
                    trackers |-> trackers, image |-> image]
         /\ pre' = [op |-> "paste", by |-> t, board |-> board,
                    trackers |-> trackers, inBounds |-> InBounds(other, y, x)]
         /\ IF Broadcasts(other, y, x)
            THEN /\ board' = PasteFrom(board, other, y, x, 0)
                 /\ image' = None
                 /\ tick_lock' = NoThread
                 /\ pc' = [pc EXCEPT ![t] = "done"]
            ELSE /\ tick_lock' = t
                 /\ pc' = [pc EXCEPT ![t] = "paste_raised"]
                 /\ UNCHANGED <<board, image>>
    /\ UNCHANGED <<paused, new_board, use_gpu, trackers, sinkRaises, pushed, copied,
                   pasteArgs, img_local, ret, uiOps, preset, file, paths,
                   container>>

NextPasteAlone == \E t \in PasteThreads : PasteAlone(t)

SpecPasteAlone == InitPasteAlone /\ [][NextPasteAlone]_vars

(***************************************************************************)
(* Presets on their own: Preset.__new__, Preset.rotate,                    *)
(* PresetContainer.rotatePreset                                            *)
(***************************************************************************)
\* the arrays a Preset is built from: every shape up to the bounds, with at
\* most MaxInputAlive live cells
RegionShapes == (1 .. MaxRegionRows) \X (1 .. MaxRegionCols)

Regions ==
    UNION {{[shape |-> shp, cells |-> [c \in GridCells(shp) |-> c \in S]] :
               S \in SubsetsUpTo(GridCells(shp), MaxInputAlive)} :
           shp \in RegionShapes}

NoLocation == "unset"

\* Preset(src, name, crop) for an array src: Preset.__new__ returns the view
\* of src (cropped or not), Preset.__init__ sets the name; saved_location is
\* set only when src is a Path
PresetOf(src, name, crop) ==
    LET w == PresetWindow(src.cells, src.shape, crop)
    IN  [kind |-> "Preset", name |-> name, shape |-> w.shape,
         cells |-> View(src.cells, w.r0, w.c0, w.shape),
         saved_location |-> NoLocation]

\* np.transpose of a 2-D array
transpose(g, shp) ==
    [shape |-> <<shp[2], shp[1]>>,
     cells |-> [c \in GridCells(<<shp[2], shp[1]>>) |-> g[<<c[2], c[1]>>]]]

\* np.flip(m, axis=1): the columns in reverse order
flip(m) ==
    [shape |-> m.shape,
     cells |-> [c \in GridCells(m.shape) |->
                   m.cells[<<c[1], m.shape[2] - 1 - c[2]>>]]]

\* a reflection in the diagonal in place of the quarter turn
mirrored(g, shp) == transpose(g, shp)

\* np.rot90(m, k=-1), as numpy computes it for k % 4 = 3:
\* flip(transpose(m), axis 1)
rot90(g, shp) == flip(transpose(g, shp))

\* a rotation that crops its result to the live cells
rotateCropped(p) == PresetOf(rot90(p.cells, p.shape), p.name, TRUE)

\* Preset.rotate: Preset(np.rot90(self, k=-1), self.name)
rotate(p) == PresetOf(rot90(p.cells, p.shape), p.name, FALSE)

\* the values the selected preset is compared with: a Board (not a Preset)
\* and Presets of the same or another name, with the same or another grid
OtherValues(p) ==
    {[kind |-> "Board", name |-> p.name, shape |-> p.shape, cells |-> p.cells,
      saved_location |-> NoLocation],
     [p EXCEPT !.name = "glider"],
     [p EXCEPT !.saved_location = NoLocation],
     PresetOf([shape |-> <<1, 1>>, cells |-> [c \in GridCells(<<1, 1>>) |-> TRUE]],
              p.name, FALSE)}

\* an equality that also compares the grids
PresetEqByGrid(a, b) ==
    IF b.kind # "Preset" THEN FALSE
    ELSE a.name = b.name /\ a.shape = b.shape /\ a.cells = b.cells

\* Preset.__eq__, Preset.__ne__ and Preset.__hash__ (the hash of a string is
\* kept as the string)
PresetEq(a, b) == IF b.kind # "Preset" THEN FALSE ELSE a.name = b.name
PresetNe(a, b) == ~PresetEq(a, b)
PresetHash(a) == a.name

InitPresets ==
    /\ board = zeros(shape)
    /\ new_board = zeros(shape)
    /\ use_gpu = FALSE
    /\ tick_lock = NoThread
    /\ trackers = InitTrackers
    /\ sinkRaises = FALSE
    /\ pushed = << >>
    /\ image = None
    /\ pc = [t \in Threads |-> "idle"]
    /\ copied = 0
    /\ pasteArgs = NoArgs
    /\ img_local = None
    /\ ret = None
    /\ uiOps = 0
    /\ preset = NoPreset
    /\ file = << >>
    /\ pre = [op |-> "none", by |-> NoThread, board |-> board,
              trackers |-> trackers, inBounds |-> TRUE]
    /\ paths = NoPaths
    /\ paused = NoThread
    /\ \E src \in Regions, loaded \in BOOLEAN :
         LET p == [PresetOf(src, "blinker", FALSE) EXCEPT
                      !.saved_location =
                          IF loaded THEN "blinker.preset" ELSE NoLocation]
         IN  /\ \E v \in OtherValues(p) : container =
                    [preset |-> p, other |-> v, presets |-> <<p>>]
             /\ was = [op |-> "none", recv |-> p, orig |-> p, turns |-> 0,
                       crops |-> 0]

\* PresetContainer.rotatePreset: self.preset = self.preset.rotate()
RotatePreset ==
    /\ was.turns < MaxTurns
    /\ container' = [container EXCEPT !.preset = rotate(@)]
    /\ was' = [was EXCEPT !.op = "rotate", !.recv = container.preset,
                          !.turns = @ + 1]
    /\ UNCHANGED <<paused, board, new_board, use_gpu, tick_lock, trackers, sinkRaises,
                   pushed, image, pc, copied, pasteArgs, img_local, ret, uiOps,
                   preset, file, pre, paths>>

\* Preset(src, name, True) on the selected array: crop to its content
CropPreset ==
    /\ was.crops < MaxCrops
    /\ LET p == PresetOf(container.preset, container.preset.name, TRUE)
       IN  /\ container' = [container EXCEPT !.preset = p]
           /\ was' = [op |-> "crop", recv |-> container.preset, orig |-> p,
                      turns |-> 0, crops |-> was.crops + 1]
    /\ UNCHANGED <<paused, board, new_board, use_gpu, tick_lock, trackers, sinkRaises,
                   pushed, image, pc, copied, pasteArgs, img_local, ret, uiOps,
                   preset, file, pre, paths>>

NextPresets == RotatePreset \/ CropPreset

SpecPresets == InitPresets /\ [][NextPresets]_vars

(***************************************************************************)
(* The time bar: TimeBarRender.setSpeed and TimeBarRender.step, run by the *)
(* UI thread beside the driver.  LogicHandler.pause, resume, isPaused and  *)
(* the lock LogicHandler.paused are called by the time bar and by Main but *)
(* are not defined in src/logic/Handler.py; they are followed as the       *)
(* description of the driver gives them: pause acquires the pause signal,  *)
(* resume releases it, isPaused is paused.locked().                        *)
(***************************************************************************)
\* setSpeed(0): self.logic.pause()
Pause ==
    /\ pc[Ui] = "idle"
    /\ uiOps < MaxPacingOps
    /\ paused = NoThread
    /\ paused' = Ui
    /\ uiOps' = uiOps + 1
    /\ was' = [op |-> "pause", paused |-> FALSE]
    /\ UNCHANGED <<board, new_board, use_gpu, tick_lock, trackers, sinkRaises,
                   pushed, image, pc, copied, pasteArgs, img_local, ret,
                   preset, file, pre, paths, container>>

\* setSpeed(tick_rate) with tick_rate > 0: if self.logic.isPaused():
\* self.logic.resume()
Resume ==
    /\ pc[Ui] = "idle"
    /\ uiOps < MaxPacingOps
    /\ paused # NoThread
    /\ paused' = NoThread
    /\ uiOps' = uiOps + 1
    /\ was' = [op |-> "resume", paused |-> TRUE]
    /\ UNCHANGED <<board, new_board, use_gpu, tick_lock, trackers, sinkRaises,
                   pushed, image, pc, copied, pasteArgs, img_local, ret,
                   preset, file, pre, paths, container>>

\* a step that calls tick() whether or not the pause signal is held
StepUnguarded ==
    /\ pc[Ui] = "idle"
    /\ uiOps < MaxPacingOps
    /\ uiOps' = uiOps + 1
    /\ was' = [op |-> "step", paused |-> paused # NoThread]
    /\ pc' = [pc EXCEPT ![Ui] = "tick_acquire"]
    /\ UNCHANGED <<paused, board, new_board, use_gpu, tick_lock, trackers,
                   sinkRaises, pushed, image, copied, pasteArgs, img_local, ret,
                   preset, file, pre, paths, container>>

\* TimeBarRender.step: if self.logic.paused.locked(): self.logic.board.tick()
\* else the step button is disabled
Step ==
    /\ pc[Ui] = "idle"
    /\ uiOps < MaxPacingOps
    /\ uiOps' = uiOps + 1
    /\ was' = [op |-> "step", paused |-> paused # NoThread]
    /\ pc' = IF paused # NoThread THEN [pc EXCEPT ![Ui] = "tick_acquire"] ELSE pc
    /\ UNCHANGED <<paused, board, new_board, use_gpu, tick_lock, trackers,
                   sinkRaises, pushed, image, copied, pasteArgs, img_local, ret,
                   preset, file, pre, paths, container>>

NextPacing ==
    \/ DriverRun
    \/ Tick(Driver)
    \/ Tick(Ui)
    \/ Pause
    \/ Resume
    \/ Step

SpecPacing == Init /\ [][NextPacing]_vars

(***************************************************************************)
(* The program under fair scheduling: a thread that can take a step of the *)
(* operation it is in eventually takes it.  Python's threads are scheduled *)
(* preemptively and threading.Lock.acquire() blocks until the lock is      *)
(* free, so each operation is weakly fair; nothing makes a thread release  *)
(* a lock it holds except its own next statement.                          *)
(***************************************************************************)
\* Board(_, False, height, width): the board starts with no live cell, and
\* pastes bring cells to life
InitFair == Init /\ board = BoardNew(FALSE, zeros(shape))

SpecFair ==
    /\ InitFair
    /\ [][Next]_vars
    /\ WF_vars(Tick(Driver))
    /\ \A t \in PasteThreads : WF_vars(Paste(t))
    /\ WF_vars(GetImage)
    /\ WF_vars(Save)

(***************************************************************************)
(* Construction on its own: Board(_, random, height, width) for heights    *)
(* and widths of either sign                                               *)
(***************************************************************************)
\* a board on which no thread has started an operation
IdleBoard ==
    /\ board = zeros(shape)
    /\ new_board = zeros(shape)
    /\ use_gpu = FALSE
    /\ tick_lock = NoThread
    /\ trackers = InitTrackers
    /\ sinkRaises = FALSE
    /\ pushed = << >>
    /\ image = None
    /\ pc = [t \in Threads |-> "idle"]
    /\ copied = 0
    /\ pasteArgs = NoArgs
    /\ img_local = None
    /\ ret = None
    /\ uiOps = 0
    /\ preset = NoPreset
    /\ pre = [op |-> "none", by |-> NoThread, board |-> board,
              trackers |-> trackers, inBounds |-> TRUE]
    /\ paths = NoPaths
    /\ paused = NoThread

\* nothing but the operation followed is in progress
InitIdle ==
    /\ IdleBoard
    /\ file = << >>
    /\ container = NoContainer
    /\ was = NoOp

Dims == (0 - MaxNegDim) .. MaxDim

\* np.zeros and np.random.choice raise ValueError for a shape with a
\* negative entry, and build an array, empty when an entry is 0, otherwise
NegativeDimensions(shp) == shp[1] < 0 \/ shp[2] < 0

\* Board.__new__(cls, _, random, height, width) with the grid drawn when
\* random: the array built, or the ValueError of numpy
NewBoard(random, height, width, alive) ==
    LET shp == <<height + 2, width + 2>>
    IN  IF NegativeDimensions(shp)
        THEN [raised |-> TRUE, shape |-> shp, cells |-> << >>]
        ELSE [raised |-> FALSE, shape |-> shp,
              cells |-> IF random THEN [c \in GridCells(shp) |-> c \in alive]
                        ELSE zeros(shp)]

\* Board(True, random, height, width), as Main and the demo of src/Board.py
\* call it
Construct ==
    /\ \E random \in BOOLEAN, height \in Dims, width \in Dims :
         \E alive \in SubsetsUpTo(GridCells(<<height + 2, width + 2>>),
                                  MaxSeedAlive) :
            was' = [op |-> "new", random |-> random, height |-> height,
                    width |-> width,
                    made |-> NewBoard(random, height, width, alive)]
    /\ UNCHANGED <<paused, board, new_board, use_gpu, tick_lock, trackers,
                   sinkRaises, pushed, image, pc, copied, pasteArgs, img_local,
                   ret, uiOps, preset, file, pre, paths, container>>

NextConstruct == Construct

SpecConstruct == InitIdle /\ [][NextConstruct]_vars

(***************************************************************************)
(* getImage on its own, in either mode: Preset.__init__ calls              *)
(* getImage(True), BoardRender.render and PresetContainer.setPreset call   *)
(* getImage(False) on the same object, setPreset after a refresh()         *)
(***************************************************************************)
\* Board.getImage(is_transparent) from its first line to its return, with
\* no other thread running: the cached image when there is one, else the
\* image computed in the mode asked for, which is cached
GetImageAlone(is_transparent) ==
    /\ was' = [op |-> "getImage", is_transparent |-> is_transparent,
               cached |-> image # None]
    /\ IF image # None
       THEN /\ ret' = image
            /\ UNCHANGED image
       ELSE /\ image' = Render(board, shape, use_gpu, is_transparent)
            /\ ret' = image'
    /\ UNCHANGED <<paused, board, new_board, use_gpu, tick_lock, trackers,
                   sinkRaises, pushed, pc, copied, pasteArgs, img_local, uiOps,
                   preset, file, pre, paths, container>>

\* Board.refresh: self.image = None
Refresh ==
    /\ image # None
    /\ image' = None
    /\ was' = [op |-> "refresh"]
    /\ UNCHANGED <<paused, board, new_board, use_gpu, tick_lock, trackers,
                   sinkRaises, pushed, pc, copied, pasteArgs, img_local, ret,
                   uiOps, preset, file, pre, paths, container>>

NextModes ==
    \/ \E is_transparent \in BOOLEAN : GetImageAlone(is_transparent)
    \/ Refresh

SpecModes == Init /\ [][NextModes]_vars

(***************************************************************************)
(* The instances of the update kernels and the cells each one reads:       *)
(* Board.updateCPU / countAlive and Board.updateGpu of src/logic/Board.py, *)
(* and Board.updateGpu of src/Board.py                                     *)
(***************************************************************************)
\* the index pairs of the 3x3 window centred on <<i, j>>, as written in the
\* kernels: i - 1 .. i + 1 and j - 1 .. j + 1
WindowIndices(i, j) == ((i - 1) .. (i + 1)) \X ((j - 1) .. (j + 1))

\* the cells self[i - 1:i + 2, j - 1:j + 2] selects: numpy takes a start of
\* -1 as the last index and clamps a stop beyond the end
CpuWindow(i, j) == Slice(i - 1, i + 2, shape[1]) \X Slice(j - 1, j + 2, shape[2])

\* the elements board[x + i, y + j] of a GPU instance: element indexing in
\* a CUDA kernel is not clamped and not checked
GpuWindow(x, y) == {<<x + i, y + j>> : i \in -1 .. 1, j \in -1 .. 1}

\* the guard of updateGpu in src/Board.py: 0 < x < width and 0 < y < height,
\* called with width, height = shape
FirstKernelGuard(x, y) ==
    0 < x /\ x < shape[1] /\ 0 < y /\ y < shape[2]

\* one pass of the loop of updateCPU: np.ndindex(self.shape) gives every
\* cell of the physical grid
CpuInstance ==
    /\ \E c \in Cells :
         was' = [op |-> "kernel", kernel |-> "updateCPU", cell |-> c,
                 window |-> WindowIndices(c[1], c[2]),
                 read |-> CpuWindow(c[1], c[2]),
                 count |-> countAlive(board, c[1], c[2])]
    /\ UNCHANGED <<paused, board, new_board, use_gpu, tick_lock, trackers,
                   sinkRaises, pushed, image, pc, copied, pasteArgs, img_local,
                   ret, uiOps, preset, file, pre, paths, container>>

\* one instance of updateGpu of src/logic/Board.py that passes the guard
GpuInstance ==
    /\ \E c \in KernelThreads :
         /\ KernelGuard(c[1], c[2])
         /\ was' = [op |-> "kernel", kernel |-> "updateGpu", cell |-> c,
                    window |-> WindowIndices(c[1], c[2]),
                    read |-> GpuWindow(c[1], c[2]),
                    count |-> GpuAliveCount(board, c[1], c[2])]
    /\ UNCHANGED <<paused, board, new_board, use_gpu, tick_lock, trackers,
                   sinkRaises, pushed, image, pc, copied, pasteArgs, img_local,
                   ret, uiOps, preset, file, pre, paths, container>>

\* one instance of updateGpu of src/Board.py that passes its guard; an
\* element read outside the array has an undefined value, so the count is
\* any value the nine reads can add up to
FirstGpuInstance ==
    /\ \E c \in KernelThreads :
         /\ FirstKernelGuard(c[1], c[2])
         /\ LET inside == GpuWindow(c[1], c[2]) \cap Cells
                outside == GpuWindow(c[1], c[2]) \ Cells
            IN  \E garbage \in 0 .. Cardinality(outside) :
                   was' = [op |-> "kernel", kernel |-> "updateGpu (first)",
                           cell |-> c,
                           window |-> WindowIndices(c[1], c[2]),
                           read |-> GpuWindow(c[1], c[2]),
                           count |-> SumOver(board, inside) + garbage
                                        - AsInt(board[c])]
    /\ UNCHANGED <<paused, board, new_board, use_gpu, tick_lock, trackers,
                   sinkRaises, pushed, image, pc, copied, pasteArgs, img_local,
                   ret, uiOps, preset, file, pre, paths, container>>

NextKernels ==
    \/ CpuInstance
    \/ GpuInstance
    \/ FirstGpuInstance

SpecKernels == Init /\ [][NextKernels]_vars

(***************************************************************************)
(* Presets and their files: Preset.save, Preset.delete,                    *)
(* PresetContainer.addPreset, deletePreset and rotatePreset.  Every preset *)
(* followed has the same name, so they share one path of DATA_PATH; file   *)
(* is its content, << >> when there is no such file.                       *)
(***************************************************************************)
\* the presets the container starts with: none, or the one loaded from the
\* file of DATA_PATH by Preset(file, file.stem), whose saved_location is set
InitShelf ==
    /\ IdleBoard
    /\ was = NoOp
    /\ \E src \in PasteSources, loaded \in BOOLEAN :
         IF loaded
         THEN /\ file = savetxt(src.cells, src.shape)
              /\ container =
                    [preset |-> None, other |-> None,
                     presets |-> <<[PresetOf(src, "blinker", FALSE) EXCEPT
                                       !.saved_location = "blinker.preset"]>>]
         ELSE /\ file = << >>
              /\ container = NoContainer

\* Preset.delete on preset p with the file content f:
\* self.saved_location.unlink(); del self.saved_location.  The attribute
\* lookup raises AttributeError when saved_location was never set, unlink
\* raises FileNotFoundError when there is no file, and either leaves the
\* preset as it was
delete(p, f) ==
    IF p.saved_location = NoLocation
    THEN [raised |-> "AttributeError", preset |-> p, file |-> f]
    ELSE IF f = << >>
         THEN [raised |-> "FileNotFoundError", preset |-> p, file |-> f]
         ELSE [raised |-> "none",
               preset |-> [p EXCEPT !.saved_location = NoLocation],
               file |-> << >>]

\* PresetContainer.addPreset: Preset(board_region, name), preset.save(...),
\* self.presets.append(preset)
AddPreset ==
    /\ uiOps < MaxShelfOps
    /\ container.presets = << >>
    /\ \E src \in PasteSources :
         LET p == PresetOf(src, "blinker", FALSE)
         IN  /\ file' = savetxt(p.cells, p.shape)
             /\ container' = [container EXCEPT !.presets = Append(@, p)]
             /\ was' = [op |-> "add", recv |-> p, last |-> was.op,
                        raised |-> "none"]
    /\ uiOps' = uiOps + 1
    /\ UNCHANGED <<paused, board, new_board, use_gpu, tick_lock, trackers,
                   sinkRaises, pushed, image, pc, copied, pasteArgs, img_local,
                   ret, preset, pre, paths>>

\* PresetContainer.setPreset(name) and rotatePreset: the preset of the list
\* is selected and self.preset = self.preset.rotate(), a new Preset
SelectAndRotate ==
    /\ uiOps < MaxShelfOps
    /\ container.presets # << >>
    /\ container' = [container EXCEPT !.preset = rotate(container.presets[1])]
    /\ was' = [op |-> "rotate", recv |-> container.presets[1], last |-> was.op,
               raised |-> "none"]
    /\ uiOps' = uiOps + 1
    /\ UNCHANGED <<paused, board, new_board, use_gpu, tick_lock, trackers,
                   sinkRaises, pushed, image, pc, copied, pasteArgs, img_local,
                   ret, preset, file, pre, paths>>

\* Preset.save(DATA_PATH) on the selected preset: np.savetxt writes the file;
\* nothing is assigned to the preset
SaveSelected ==
    /\ uiOps < MaxShelfOps
    /\ container.preset # None
    /\ file' = savetxt(container.preset.cells, container.preset.shape)
    /\ was' = [op |-> "save", recv |-> container.preset, last |-> was.op,
               raised |-> "none"]
    /\ uiOps' = uiOps + 1
    /\ UNCHANGED <<paused, board, new_board, use_gpu, tick_lock, trackers,
                   sinkRaises, pushed, image, pc, copied, pasteArgs, img_local,
                   ret, preset, pre, paths, container>>

\* Preset.delete() on the selected preset
DeleteSelected ==
    /\ uiOps < MaxShelfOps
    /\ container.preset # None
    /\ LET d == delete(container.preset, file)
       IN  /\ file' = d.file
           /\ container' = [container EXCEPT !.preset = d.preset]
           /\ was' = [op |-> "delete", recv |-> container.preset,
                      last |-> was.op, raised |-> d.raised]
    /\ uiOps' = uiOps + 1
    /\ UNCHANGED <<paused, board, new_board, use_gpu, tick_lock, trackers,
                   sinkRaises, pushed, image, pc, copied, pasteArgs, img_local,
                   ret, preset, pre, paths>>

\* PresetContainer.deletePreset(name): preset.delete() and then
\* self.presets.remove(preset), which is not reached when delete raises
DeletePreset ==
    /\ uiOps < MaxShelfOps
    /\ container.presets # << >>
    /\ LET d == delete(container.presets[1], file)
       IN  /\ file' = d.file
           /\ container' =
                 IF d.raised = "none"
                 THEN [container EXCEPT !.presets = Tail(@)]
                 ELSE container
           /\ was' = [op |-> "delete", recv |-> container.presets[1],
                      last |-> was.op, raised |-> d.raised]
    /\ uiOps' = uiOps + 1
    /\ UNCHANGED <<paused, board, new_board, use_gpu, tick_lock, trackers,
                   sinkRaises, pushed, image, pc, copied, pasteArgs, img_local,
                   ret, preset, pre, paths>>

NextShelf ==
    \/ AddPreset
    \/ SelectAndRotate
    \/ SaveSelected
    \/ DeleteSelected
    \/ DeletePreset

SpecShelf == InitShelf /\ [][NextShelf]_vars

(***************************************************************************)
(* Presets built on the live board: Preset.__new__ on an array returns     *)
(* src.view(cls) or src[...].view(cls), and np.rot90 returns a view of its *)
(* argument, so the preset's cells are cells of the board                  *)
(***************************************************************************)
\* the cells of the preset built on the board: the window of the board it
\* is a view of, turned when the preset comes from rotate()
PresetCells ==
    LET v == View(board, preset.r0, preset.c0, preset.shape)
    IN  IF preset.turned THEN rot90(v, preset.shape).cells ELSE v

\* SavePopup.save on the live Board: Preset(board, name, make_preset.on, ...)
SnapPreset ==
    /\ uiOps < MaxViewOps
    /\ ~preset.exists
    /\ \E make_preset \in BOOLEAN :
         LET w == PresetWindow(board, shape, make_preset)
         IN  preset' = [exists |-> TRUE, r0 |-> w.r0, c0 |-> w.c0,
                        shape |-> w.shape, turned |-> FALSE]
    /\ uiOps' = uiOps + 1
    /\ UNCHANGED <<paused, board, new_board, use_gpu, tick_lock, trackers,
                   sinkRaises, pushed, image, pc, copied, pasteArgs, img_local,
                   ret, file, pre, paths, container, was>>

\* Preset.rotate: Preset(np.rot90(self, k=-1), self.name), a view of self
TurnPreset ==
    /\ uiOps < MaxViewOps
    /\ preset.exists
    /\ ~preset.turned
    /\ preset' = [preset EXCEPT !.turned = TRUE]
    /\ uiOps' = uiOps + 1
    /\ UNCHANGED <<paused, board, new_board, use_gpu, tick_lock, trackers,
                   sinkRaises, pushed, image, pc, copied, pasteArgs, img_local,
                   ret, file, pre, paths, container, was>>

\* a write to the preset's grid: tick() on the Preset that on_board_saved
\* has set as the board, on the CPU path; self[...] = self.new_board
\* assigns the cells of the window the preset is a view of
PresetTick ==
    /\ uiOps < MaxViewOps
    /\ preset.exists
    /\ ~preset.turned
    /\ LET new == updateCPUOn(PresetCells, preset.shape)
       IN  board' = [c \in Cells |->
                        IF <<c[1] - preset.r0, c[2] - preset.c0>>
                               \in GridCells(preset.shape)
                        THEN new[<<c[1] - preset.r0, c[2] - preset.c0>>]
                        ELSE board[c]]
    /\ uiOps' = uiOps + 1
    /\ UNCHANGED <<paused, new_board, use_gpu, tick_lock, trackers, sinkRaises,
                   pushed, image, pc, copied, pasteArgs, img_local, ret,
                   preset, file, pre, paths, container, was>>

NextViews ==
    \/ DriverRun
    \/ Tick(Driver)
    \/ SnapPreset
    \/ TurnPreset
    \/ PresetTick

SpecViews == Init /\ [][NextViews]_vars

(***************************************************************************)
(* Properties                                                              *)
(***************************************************************************)
\* the live cells among the 8 cells around c in grid g
MooreNeighbours(g, c) ==
    Cardinality({d \in Cells :
        /\ d # c
        /\ d[1] - c[1] \in -1 .. 1
        /\ d[2] - c[2] \in -1 .. 1
        /\ g[d]})

\* the last operation that took the lock is a tick whose grid assignment is
\* complete, and nothing has taken the lock since
AfterTick ==
    pre.op = "tick" /\ pc[pre.by] \in {"tick_trackers", "idle", "tick_acquire"}

\* the last operation that took the lock is a tick that has returned
TickCompleted == pre.op = "tick" /\ pc[pre.by] \in {"idle", "tick_acquire"}

C2_BorderDead == \A c \in BorderCells(shape) : ~board[c]

\* C3: one tick of the same grid gives the same grid, border included, and
\* the same births and deaths on the CPU path and on the GPU path.
C3_PathsAgree == paths.done => paths.cpu = paths.gpu

\* C4 as claimed: after every tick the alive tracker is its value before the
\* tick plus the births minus the deaths of the tick.
C4_TrackerAccounting ==
    TickCompleted =>
        trackers["alive"] =
            pre.trackers["alive"] + trackers["births"] - trackers["deaths"]

\* C4 amended: after every tick the alive tracker is the number of live cells
\* of the grid as it was when the tick began (getAliveCount, which the alive
\* tracker holds only if no paste or seeding came after the last tick) plus
\* the births minus the deaths of the tick.
C4_AliveAccounting ==
    TickCompleted =>
        trackers["alive"] =
            getAliveCount(pre.board) + trackers["births"] - trackers["deaths"]

\* a completed tick with births and deaths whose grid held live cells the
\* alive tracker had not counted
C4_TickOnUncountedCells ==
    /\ TickCompleted
    /\ trackers["births"] > 0
    /\ trackers["deaths"] > 0
    /\ pre.trackers["alive"] # getAliveCount(pre.board)

\* C5: a paste whose placement puts an interior cell of the source outside
\* the target's interior raises and leaves every cell of the target as it was.
C5_OutOfBoundsPasteRejected ==
    (pre.op = "paste" /\ ~pre.inBounds /\ pc[pre.by] \in {"done", "paste_raised"})
        => (pc[pre.by] = "paste_raised" /\ board = pre.board)

\* C6: when a dataset's push raises during tick, tick leaves with the lock
\* released.
C6_LockReleasedWhenSinkRaises ==
    \A t \in Threads : pc[t] = "tick_raised" => tick_lock # t

\* C7: a lock is held only while a tick, paste or save is executing: the
\* board's lock by a thread inside tick or paste, the Preset's lock by the UI
\* thread inside save.
C7_LockHeldOnlyWhileExecuting ==
    /\ tick_lock # NoThread =>
          pc[tick_lock] \in {"tick_update", "tick_copy", "tick_trackers",
                             "paste_write"}
    /\ (preset.exists /\ preset.tick_lock # NoThread) => pc[Ui] = "save_write"

\* C8: at most one thread is between the acquire and the release of tick,
\* paste or save on the board's cells.
C8_MutualExclusion ==
    Cardinality({t \in Threads :
        pc[t] \in {"tick_update", "tick_copy", "tick_trackers", "paste_write",
                   "save_write"}}) <= 1

\* the grids of a completed generation or paste at this moment: the grid
\* itself, unless an assignment is running, and then the grid before it and
\* the grid it will leave
CompleteGrids ==
    IF \E t \in Threads : pc[t] = "tick_copy" THEN {pre.board, new_board}
    ELSE IF pasteArgs # NoArgs
         THEN {pre.board,
               PasteFrom(board, pasteArgs.other, pasteArgs.y, pasteArgs.x, copied)}
         ELSE {board}

\* C9: every image getImage computes shows the grid of one completed
\* generation or paste.
C9_ImageOfOneGeneration ==
    [][(pc[Ui] = "idle" /\ pc'[Ui] = "img_store") =>
          img_local' \in {Render(g, shape, use_gpu, FALSE) : g \in CompleteGrids}]_vars

\* C10: while no tick or paste is running, a cached image is the image of
\* the current grid.
C10_CacheFresh ==
    (tick_lock = NoThread /\ image # None) =>
        image = Render(board, shape, use_gpu, FALSE)

\* C11: the generation tracker starts at 0, a step in which a tick returns
\* adds exactly 1 to it, and every other step (of paste, save, getImage, a
\* tick still running) leaves it as it is: after k completed ticks it is k.
C11_GenerationCountsTicks ==
    [][trackers'["generation"] =
          trackers["generation"] +
          (IF \E t \in Threads : pc[t] = "tick_trackers" /\ pc'[t] = "idle"
           THEN 1 ELSE 0)]_vars

\* two ticks have completed, around a completed paste and a UI operation
C11_TicksAmongOtherOperations ==
    /\ trackers["generation"] = 2
    /\ \E t \in PasteThreads : pc[t] = "done"
    /\ uiOps > 0
    /\ pc[Ui] = "idle"

\* the tick that last took the lock is at one of the given positions
TickAt(positions) == pre.op = "tick" /\ pc[pre.by] \in positions

\* C12 as claimed: in every tick each of the five trackers is pushed exactly
\* once, no tracker is pushed before the next-generation buffer has been
\* copied into the grid, and alive is pushed before time before generation.
C12_AllPushesAfterCopy ==
    /\ TickAt({"tick_update", "tick_copy"}) => pushed = << >>
    /\ TickCompleted =>
          /\ \A k \in TrackerNames :
                Cardinality({i \in 1 .. Len(pushed) : pushed[i] = k}) = 1
          /\ \E i, j, k \in 1 .. Len(pushed) :
                /\ pushed[i] = "alive" /\ pushed[j] = "time"
                /\ pushed[k] = "generation" /\ i < j /\ j < k

\* C12 amended: in every tick each of the five trackers is pushed exactly
\* once; births and then deaths are pushed once the next-generation buffer is
\* computed and before it is copied into the grid; alive, time and generation
\* are pushed after the copy, in that order.
C12_PushOrder ==
    /\ TickAt({"tick_update"}) => pushed = << >>
    /\ TickAt({"tick_copy", "tick_trackers"}) => pushed = <<"births", "deaths">>
    /\ TickCompleted =>
          pushed = <<"births", "deaths", "alive", "time", "generation">>

\* a tick that changed the grid has returned, its five pushes made
C12_TickPushedAll == TickCompleted /\ Len(pushed) = 5 /\ board # pre.board

\* the number of interior cells of the grid that satisfy P
InteriorCount(P(_)) == Cardinality({c \in InteriorCells(shape) : P(c)})

\* C13: after every tick the births tracker is the number of interior cells
\* dead before the tick and alive after it, the deaths tracker the number of
\* interior cells alive before and dead after, and the alive tracker and
\* getAliveCount() the number of live interior cells.
C13_InteriorCounts ==
    TickCompleted =>
        LET born(c) == ~pre.board[c] /\ board[c]
            died(c) == pre.board[c] /\ ~board[c]
            lives(c) == board[c]
        IN  /\ trackers["births"] = InteriorCount(born)
            /\ trackers["deaths"] = InteriorCount(died)
            /\ trackers["alive"] = InteriorCount(lives)
            /\ getAliveCount(board) = InteriorCount(lives)

\* the smaller and the larger of two numbers
Lower(a, b) == IF a < b THEN a ELSE b
Higher(a, b) == IF a > b THEN a ELSE b

\* C14: a Preset built with crop from a region with no live cell is the
\* region; from a region with live cells it is the rectangle from one row
\* above the topmost live cell to one row below the lowest, from one column
\* left of the leftmost to one column right of the rightmost, each side
\* stopping at the region's edge; cropping it again returns the same grid.
C14_CropToContent ==
    was.op = "crop" =>
        LET r == was.recv
            p == container.preset
            live == {c \in GridCells(r.shape) : r.cells[c]}
            again == PresetOf(p, p.name, TRUE)
        IN  /\ live = {} => (p.shape = r.shape /\ p.cells = r.cells)
            /\ live # {} =>
                 LET top == Higher(Min({c[1] : c \in live}) - 1, 0)
                     bottom == Lower(Max({c[1] : c \in live}) + 1, r.shape[1] - 1)
                     left == Higher(Min({c[2] : c \in live}) - 1, 0)
                     right == Lower(Max({c[2] : c \in live}) + 1, r.shape[2] - 1)
                 IN  /\ p.shape = <<bottom - top + 1, right - left + 1>>
                     /\ \A c \in GridCells(p.shape) :
                           p.cells[c] = r.cells[<<c[1] + top, c[2] + left>>]
            /\ again.shape = p.shape
            /\ again.cells = p.cells

\* a 4x4 region whose only live cell is away from its edges was cropped to
\* the 3x3 grid centred on that cell
C14_SingleCellCropped ==
    /\ was.op = "crop"
    /\ was.recv.shape = <<4, 4>>
    /\ {c \in GridCells(<<4, 4>>) : was.recv.cells[c]} = {<<2, 1>>}
    /\ container.preset.shape = <<3, 3>>
    /\ {c \in GridCells(<<3, 3>>) : container.preset.cells[c]} = {<<1, 1>>}

\* C15: a preset rotated four times has the shape and the cell values it had
\* before the first rotation.
C15_FourRotations ==
    was.turns = 4 =>
        /\ container.preset.shape = was.orig.shape
        /\ container.preset.cells = was.orig.cells

\* four rotations of a preset that is not square and that one rotation
\* changes
C15_FourTurnsOfOblong ==
    /\ was.turns = 4
    /\ was.orig.shape[1] # was.orig.shape[2]
    /\ \E c \in GridCells(was.orig.shape) : was.orig.cells[c]
    /\ rotate(rotate(was.orig)).cells # was.orig.cells

\* C16: rotate returns a Preset with the receiver's name whose grid is the
\* receiver's grid turned a quarter turn clockwise: height and width are
\* swapped and the cell at row a, column b goes to row b, column
\* height - 1 - a. The receiver, still held in the list of presets, keeps
\* its grid, name and saved location.
C16_RotateFrame ==
    was.op = "rotate" =>
        LET r == was.recv
            p == container.preset
        IN  /\ p.kind = "Preset"
            /\ p.name = r.name
            /\ p.shape = <<r.shape[2], r.shape[1]>>
            /\ \A c \in GridCells(r.shape) :
                  p.cells[<<c[2], r.shape[1] - 1 - c[1]>>] = r.cells[c]
            /\ (was.turns = 1 /\ was.crops = 0) => container.presets = <<r>>

\* the first rotation of a preset loaded from a file, not square, with a
\* live cell
C16_RotatedLoadedPreset ==
    /\ was.op = "rotate"
    /\ was.turns = 1
    /\ was.crops = 0
    /\ was.recv.saved_location # NoLocation
    /\ was.recv.shape[1] # was.recv.shape[2]
    /\ \E c \in GridCells(was.recv.shape) : was.recv.cells[c]

\* C17: the file save writes loads back as an array with the shape and the
\* cell values of the saved grid, and when the saved grid is the live board
\* that grid is the grid of one completed generation or paste.
C17_SaveLoadRoundTrip ==
    [][(pc[Ui] = "save_write" /\ pc'[Ui] = "idle") =>
          loadtxt(file') \in
              {[shape |-> preset.shape,
                cells |-> View(g, preset.r0, preset.c0, preset.shape)] :
                  g \in CompleteGrids}]_vars

\* the values held at this moment: the selected preset, the receiver and the
\* origin of the last operation, the presets of the list, the other value
HeldValues ==
    {container.preset, container.other, was.recv, was.orig}
        \cup {container.presets[i] : i \in 1 .. Len(container.presets)}

\* C18: for presets a and b, a == b iff their names are equal, whatever
\* their grids; a != b is the negation of a == b; a == b implies equal
\* hashes; a preset is never equal to a value that is not a Preset.
C18_EqualityByName ==
    \A a \in {v \in HeldValues : v.kind = "Preset"} :
        \A b \in HeldValues :
            /\ b.kind = "Preset" => (PresetEq(a, b) <=> a.name = b.name)
            /\ PresetNe(a, b) <=> ~PresetEq(a, b)
            /\ PresetEq(a, b) => PresetHash(a) = PresetHash(b)
            /\ b.kind # "Preset" => ~PresetEq(a, b)

\* the selected preset, rotated, is held with a preset of the same name and
\* another grid
C18_SameNameOtherGrid ==
    /\ was.op = "rotate"
    /\ container.other.kind = "Preset"
    /\ container.other.name = container.preset.name
    /\ container.other.shape # container.preset.shape

C20_PasteFrame ==
    (was.op = "paste" /\ InBounds(was.other, was.y, was.x)) =>
        LET rows == was.other.shape[1] - 2
            cols == was.other.shape[2] - 2
        IN  /\ \A c \in Cells :
                  LET i == c[1] - 1 - was.x
                      j == c[2] - 1 - was.y
                  IN  board[c] =
                          IF i \in 0 .. rows - 1 /\ j \in 0 .. cols - 1
                          THEN was.other.cells[<<i + 1, j + 1>>]
                          ELSE was.board[c]
            /\ new_board = was.new_board
            /\ trackers = was.trackers
            /\ image = None

\* an in-bounds paste changed the grid, kept a live cell outside the pasted
\* cells and emptied a cache that held an image
C20_PasteOverCachedImage ==
    /\ was.op = "paste"
    /\ InBounds(was.other, was.y, was.x)
    /\ was.other.shape = <<4, 3>>
    /\ was.image # None
    /\ \E c \in Cells : board[c] /\ ~was.board[c]
    /\ \E c \in InteriorCells(shape) :
          was.board[c] /\ board[c] /\ c[2] # was.y + 1

\* C21: while the driver is paused it starts no tick: in no step that
\* begins and ends with the pause signal held does the driver call tick().
C21_PausedDriverStartsNoTick ==
    [][(paused # NoThread /\ paused' # NoThread) =>
          ~(pc[Driver] = "idle" /\ pc'[Driver] = "tick_acquire")]_vars

\* C22: a step request calls tick() iff the driver is paused; the tick it
\* calls holds the board's lock while it computes, copies and updates the
\* trackers, and adds exactly 1 to the generation when it returns.
C22_StepTicksIffPaused ==
    [][/\ (uiOps' # uiOps /\ was'.op = "step") =>
             (pc'[Ui] = "tick_acquire" <=> paused # NoThread)
       /\ pc[Ui] \in {"tick_update", "tick_copy", "tick_trackers"} =>
             (tick_lock = Ui /\ was.op = "step" /\ was.paused)
       /\ (pc[Ui] = "tick_trackers" /\ pc'[Ui] = "idle") =>
             /\ pre.by = Ui
             /\ trackers'["generation"] = pre.trackers["generation"] + 1
             /\ \A c \in InteriorCells(shape) :
                    board'[c] <=>
                        \/ pre.board[c] /\ MooreNeighbours(pre.board, c) \in {2, 3}
                        \/ ~pre.board[c] /\ MooreNeighbours(pre.board, c) = 3]_vars

\* a step requested while paused has ticked and returned, and a step was
\* requested while not paused
C22_SteppedWhilePaused ==
    /\ was.op = "step"
    /\ was.paused
    /\ pc[Ui] = "idle"
    /\ paused # NoThread
    /\ pre.op = "tick" /\ pre.by = Ui
    /\ trackers["generation"] > 0

\* C23: under fair scheduling every tick() the driver has called eventually
\* returns, whatever paste, save and getImage calls run beside it.
C23_CalledTickCompletes ==
    (pc[Driver] = "tick_acquire") ~> (pc[Driver] = "idle")

\* C24: constructing a Board with height <= 0 or width <= 0 raises: no board
\* with a non-positive logical dimension is built.
C24_NonPositiveSizeRejected ==
    (was.op = "new" /\ (was.height <= 0 \/ was.width <= 0)) => was.made.raised

C26_ImageInRequestedMode ==
    was.op = "getImage" =>
        ret.mode = (IF was.is_transparent THEN "RGBA" ELSE "RGB")

\* C27: every kernel instance that computes a cell reads exactly the nine
\* cells of the 3x3 window centred on it, all of them inside the physical
\* grid: no index -1, no index equal to the row or column count.
C27_FullWindowInsideGrid ==
    was.op = "kernel" =>
        /\ was.window \subseteq Cells
        /\ was.read = was.window

\* C28: a delete() that follows the save() of a preset, loaded, built from a
\* region or rotated, raises nothing and removes the file; a delete() that
\* raises leaves the file, hence the preset and the list, as they were.
C28_DeleteAfterSave ==
    was.op = "delete" =>
        /\ was.last \in {"add", "save"} =>
              (was.raised = "none" /\ file = << >>)
        /\ was.raised # "none" =>
              \/ container.preset = was.recv
              \/ (container.presets # << >> /\ container.presets[1] = was.recv)

\* C29: getImage() never returns None: whenever a getImage() call returns,
\* under any interleaving with the refresh() of a tick or a paste, the value
\* it returns is an image.
C29_GetImageReturnsImage ==
    [][/\ (pc[Ui] = "img_return" /\ pc'[Ui] = "idle") => ret' # None
       /\ (pc[Ui] = "idle" /\ uiOps' # uiOps /\ pc'[Ui] = "idle") => ret' # None]_vars

\* C30: a Preset built from the live board, or by rotate(), shares no cell
\* with its source: a step of the source's tick leaves the preset's cells
\* as they were, and a write to the preset's grid leaves the board as it was.
C30_PresetIsSnapshot ==
    [][/\ (preset.exists /\ uiOps' = uiOps) => PresetCells' = PresetCells
       /\ uiOps' # uiOps => board' = board]_vars

====
